---- MODULE Spec2Model ----
(***************************************************************************)
(* A model of the qtutils headers: SafePointer (safepointer.h), Singleton  *)
(* (singleton.h), Translator and the TR bindings (translator.h),           *)
(* safeConnect / safeDisconnect (safeconnect.h) and the Box / Form layout  *)
(* builders (layouts.h).  The toolkit calls the headers forward to (QPointer,       *)
(* QObject::connect, QBoxLayout, QFormLayout) are modelled by their        *)
(* documented behaviour.                                                   *)
(***************************************************************************)
EXTENDS Integers, Sequences, FiniteSets

VARIABLES
    deleteCount,    \* [Objects -> Nat]: how often each QObject's destructor ran
    ptr,            \* [Pointers -> Objects \cup {Null}]: what each SafePointer's data() reads
    spAlive,        \* [Pointers -> BOOLEAN]: the SafePointer is constructed and not destroyed
    pendingDelete,  \* objects with a posted deferred-delete event (deleteLater)
    raw,            \* the latest release(): the pointer released and the raw pointer returned
    lastSP,         \* the last SafePointer call: its arguments, the pre-state it saw, its effects
    cDebug,         \* assert() is compiled in (NDEBUG is not defined)
    qtDebug,        \* Q_ASSERT is compiled in (QT_NO_DEBUG is not defined)
    qApp,           \* a QApplication exists (qApp != nullptr)
    failed,         \* "none", or what ended the process: the assertion that failed, a crash
    s_instance,     \* [Types -> Instances \cup {Null}]: the static instance pointer of each type
    liveInst,       \* [Types -> SUBSET Instances]: the instances constructed and not destroyed
    nextId,         \* [Types -> Nat]: the identity the next constructed instance gets
    overlapped,     \* [Types -> BOOLEAN]: two instances of the type were ever alive together
    lastSing,       \* the last singleton construction or destruction and the slots it saw
    conns,          \* [ConnTuples -> Nat]: the connections per (sender, signal, receiver, slot)
    lastConn,       \* the last safeConnect / safeDisconnect call and what it saw
    layoutKind,     \* the layout wrapper being built: "none", "box" (VBox, HBox) or "form"
    items,          \* the items of the wrapped QBoxLayout, in layout order
    rows,           \* the rows of the wrapped QFormLayout, in layout order
    m_reversed,     \* Box::m_reversed
    contentsMargins,\* the wrapped layout's contents margins <<left, top, right, bottom>>
    spacingProp,    \* the wrapped layout's spacing property, as set by setSpacing
    lastL,          \* the last builder call: its arguments, the toolkit calls it made
    appendedAs,     \* isReversed() at the accepted << calls of the Box: "none" (no call yet),
                    \* "forward" (false at all), "reversed" (true at all) or "mixed"
    callOrder,      \* unless mixed: the items the accepted << calls created, in call order
    wAlive,         \* [Widgets -> BOOLEAN]: the widget exists
    trConns,        \* [Instances \X Bindable -> Nat]: the connections of a Translator's
                    \* languageChanged to the TR lambdas for a widget's property
    trBound,        \* [Bindable -> SUBSET Instances]: the Translators the property was bound to
    lastT           \* the last event delivery, TR binding or widget construction / destruction

spVars == <<deleteCount, ptr, spAlive, pendingDelete, raw, lastSP>>
buildVars == <<cDebug, qtDebug, qApp>>
singVars == <<s_instance, liveInst, nextId, overlapped, lastSing>>
connVars == <<conns, lastConn>>
layoutVars ==
    <<layoutKind, items, rows, m_reversed, contentsMargins, spacingProp, lastL,
      appendedAs, callOrder>>
trVars == <<wAlive, trConns, trBound, lastT>>

vars == <<spVars, buildVars, failed, singVars, connVars, layoutVars, trVars>>

\* What the operations of one header leave alone: the state of the others.
notSP == <<buildVars, failed, singVars, connVars, layoutVars, trVars>>
notSing == <<spVars, buildVars, connVars, layoutVars, trVars>>
notConn == <<spVars, buildVars, singVars, layoutVars, trVars>>
notLayout == <<spVars, buildVars, failed, singVars, connVars, trVars>>
notTr == <<spVars, buildVars, singVars, connVars, layoutVars>>

(***************************************************************************)
(* Bounds                                                                  *)
(***************************************************************************)
NumObjects == 2
NumPointers == 2
MaxInstances == 2
NumQObjects == 2
MaxItems == 2
MaxBindings == 2

Null == 0

Objects == 1..NumObjects
Pointers == 1..NumPointers

(***************************************************************************)
(* SafePointer<T> : QPointer<T>                                            *)
(***************************************************************************)

\* A QObject is live until its destructor has run.
IsLive(o) == o /= Null /\ deleteCount[o] = 0

\* The raw pointers a caller can pass without itself using a dangling
\* pointer: nullptr or a live object.
ValidRaw == {Null} \cup {o \in Objects : IsLive(o)}

\* QPointer<T>::data()
data(p) == ptr[p]

\* The number of constructed SafePointers that read o.
Owners(o) == Cardinality({q \in Pointers : spAlive[q] /\ ptr[q] = o})

\* No release() is being followed.
NoRelease == [p |-> Null, obj |-> Null]

\* The raw pointer the latest release() returned, when it was p that was
\* released and p has not been given an object or destroyed since.
Released(p) == IF raw.p = p THEN raw.obj ELSE Null

\* p is given an object or destroyed: its release() is no longer followed.
RawAfterRebind(p) == IF raw.p = p THEN NoRelease ELSE raw

NoCallSP ==
    [op |-> "none", p |-> Null, obj |-> Null, held |-> Null, live |-> FALSE,
     owners |-> 0, rel |-> Null, ret |-> Null, deleted |-> {}]

CallSP(op, p, obj, ret, deleted) ==
    [op |-> op, p |-> p, obj |-> obj, held |-> data(p), live |-> IsLive(data(p)),
     owners |-> IF data(p) = Null THEN 0 ELSE Owners(data(p)),
     rel |-> Released(p), ret |-> ret, deleted |-> deleted]

\* The effect of `delete o` on the destructor counts.  delete nullptr does
\* nothing; deleting an object that is already deleted runs the destructor
\* on freed memory (a double delete).
CountAfterDelete(o) ==
    IF o = Null THEN deleteCount
    ELSE [deleteCount EXCEPT ![o] = @ + 1]

\* A double delete corrupts the heap: the run ends there.
HeapIntact == \A o \in Objects : deleteCount[o] <= 1

\* ~QObject clears the shared weak-reference data, so every QPointer that
\* tracks the object reads null from then on.  A pointer that was bound to
\* already freed memory tracks nothing and is left as it is.
PtrAfterDelete(o) ==
    IF IsLive(o) THEN [q \in Pointers |-> IF ptr[q] = o THEN Null ELSE ptr[q]]
    ELSE ptr

\* A mutant of PendingAfterDelete: the posted events outlive the object.
PendingKept(o) == pendingDelete

\* ~QObject removes the object's posted events.
PendingAfterDelete(o) ==
    IF IsLive(o) THEN pendingDelete \ {o} ELSE pendingDelete

\* A mutant of DeleteTarget: shared_ptr semantics, delete with the last owner.
DeleteTargetLastOwner(p) ==
    IF data(p) /= Null /\ Owners(data(p)) > 1 THEN Null ELSE data(p)

\* `delete *this`: the object handed to operator delete is the pointer's
\* data() (implicit conversion to T*).
DeleteTarget(p) == data(p)

Deleted(o) == IF o = Null THEN {} ELSE {o}

\* SafePointer(T *obj = nullptr)
SPConstruct(p, obj) ==
    /\ HeapIntact
    /\ ~spAlive[p]
    /\ obj \in ValidRaw
    /\ spAlive' = [spAlive EXCEPT ![p] = TRUE]
    /\ ptr' = [ptr EXCEPT ![p] = obj]
    /\ raw' = RawAfterRebind(p)
    /\ lastSP' = [CallSP("construct", p, obj, Null, {}) EXCEPT !.held = Null,
                   !.live = FALSE, !.owners = 0]
    /\ UNCHANGED <<deleteCount, pendingDelete>>
    /\ UNCHANGED notSP

\* The outcomes of QPointer<T>::operator=(obj) after `delete *this`.  When
\* obj is the object just deleted, the QPointer is built from a dangling
\* pointer (QWeakPointer reads the freed QObject): undefined behaviour, the
\* pointer ends up reading null (stale reference data) or reading obj.
AssignOutcomes(p, obj) ==
    IF obj /= Null /\ obj = DeleteTarget(p) THEN {Null, obj} ELSE {obj}

\* SafePointer<T> &operator=(T *obj)
SPAssign(p, obj) ==
    /\ HeapIntact
    /\ spAlive[p]
    /\ obj \in ValidRaw
    /\ LET d == DeleteTarget(p) IN
       /\ deleteCount' = CountAfterDelete(d)
       /\ pendingDelete' = PendingAfterDelete(d)
       /\ \E v \in AssignOutcomes(p, obj) :
              ptr' = [PtrAfterDelete(d) EXCEPT ![p] = v]
       /\ lastSP' = CallSP("assign", p, obj, Null, Deleted(d))
    /\ raw' = RawAfterRebind(p)
    /\ UNCHANGED spAlive
    /\ UNCHANGED notSP

\* A mutant of SPRelease: returns the pointer but keeps owning it.
SPReleaseKeeps(p) ==
    /\ HeapIntact
    /\ spAlive[p]
    /\ raw' = [p |-> p, obj |-> data(p)]
    /\ lastSP' = CallSP("release", p, Null, data(p), {})
    /\ UNCHANGED <<deleteCount, ptr, spAlive, pendingDelete>>
    /\ UNCHANGED notSP

\* T *release()
SPRelease(p) ==
    /\ HeapIntact
    /\ spAlive[p]
    /\ ptr' = [ptr EXCEPT ![p] = Null]
    /\ raw' = [p |-> p, obj |-> data(p)]
    /\ lastSP' = CallSP("release", p, Null, data(p), {})
    /\ UNCHANGED <<deleteCount, spAlive, pendingDelete>>
    /\ UNCHANGED notSP

\* void reset()
SPReset(p) ==
    /\ HeapIntact
    /\ spAlive[p]
    /\ LET d == DeleteTarget(p) IN
       /\ deleteCount' = CountAfterDelete(d)
       /\ pendingDelete' = PendingAfterDelete(d)
       /\ ptr' = PtrAfterDelete(d)
       /\ lastSP' = CallSP("reset", p, Null, Null, Deleted(d))
    /\ UNCHANGED <<spAlive, raw>>
    /\ UNCHANGED notSP

\* The outcomes of data()->deleteLater().  On a live object the deferred
\* delete is posted; called through a dangling pointer it is undefined
\* behaviour: nothing is posted, or an event for the freed object is.
DeleteLaterOutcomes(o) ==
    IF IsLive(o) THEN {pendingDelete \cup {o}}
    ELSE {pendingDelete, pendingDelete \cup {o}}

\* void resetLater()
SPResetLater(p) ==
    /\ HeapIntact
    /\ spAlive[p]
    /\ IF data(p) /= Null
       THEN \E pd \in DeleteLaterOutcomes(data(p)) : pendingDelete' = pd
       ELSE pendingDelete' = pendingDelete
    /\ lastSP' = CallSP("resetLater", p, Null, Null, {})
    /\ UNCHANGED <<deleteCount, ptr, spAlive, raw>>
    /\ UNCHANGED notSP

\* ~SafePointer()
SPDestroy(p) ==
    /\ HeapIntact
    /\ spAlive[p]
    /\ LET d == DeleteTarget(p) IN
       /\ deleteCount' = CountAfterDelete(d)
       /\ pendingDelete' = PendingAfterDelete(d)
       /\ ptr' = [PtrAfterDelete(d) EXCEPT ![p] = Null]
       /\ lastSP' = CallSP("destroy", p, Null, Null, Deleted(d))
    /\ spAlive' = [spAlive EXCEPT ![p] = FALSE]
    /\ raw' = RawAfterRebind(p)
    /\ UNCHANGED notSP

\* Some other owner (a parent, a plain delete) deletes a live object.
ExternalDelete(o) ==
    /\ HeapIntact
    /\ IsLive(o)
    /\ deleteCount' = CountAfterDelete(o)
    /\ pendingDelete' = PendingAfterDelete(o)
    /\ ptr' = PtrAfterDelete(o)
    /\ lastSP' = [NoCallSP EXCEPT !.op = "external", !.obj = o, !.deleted = {o}]
    /\ UNCHANGED <<spAlive, raw>>
    /\ UNCHANGED notSP

\* The event loop delivers a posted deferred delete: the object is deleted.
ProcessDeferredDelete(o) ==
    /\ HeapIntact
    /\ o \in pendingDelete
    /\ deleteCount' = CountAfterDelete(o)
    /\ pendingDelete' = pendingDelete \ {o}
    /\ ptr' = PtrAfterDelete(o)
    /\ lastSP' = [NoCallSP EXCEPT !.op = "deferred", !.obj = o, !.deleted = {o}]
    /\ UNCHANGED <<spAlive, raw>>
    /\ UNCHANGED notSP

InitSP ==
    /\ deleteCount = [o \in Objects |-> 0]
    /\ ptr = [p \in Pointers |-> Null]
    /\ spAlive = [p \in Pointers |-> FALSE]
    /\ pendingDelete = {}
    /\ raw = NoRelease
    /\ lastSP = NoCallSP

NextSP ==
    \/ \E p \in Pointers, obj \in Objects \cup {Null} : SPConstruct(p, obj)
    \/ \E p \in Pointers, obj \in Objects \cup {Null} : SPAssign(p, obj)
    \/ \E p \in Pointers : SPRelease(p)
    \/ \E p \in Pointers : SPReset(p)
    \/ \E p \in Pointers : SPResetLater(p)
    \/ \E p \in Pointers : SPDestroy(p)
    \/ \E o \in Objects : ExternalDelete(o)
    \/ \E o \in Objects : ProcessDeferredDelete(o)

(***************************************************************************)
(* Singleton<T> and Translator's instance slot                             *)
(***************************************************************************)

SingletonTypes == {"A", "B"}
TranslatorType == "Translator"
Types == SingletonTypes \cup {TranslatorType}
Instances == 1..MaxInstances

\* Singleton uses assert() of <cassert>, Translator uses Q_ASSERT.
AssertOn(T) == IF T = TranslatorType THEN qtDebug ELSE cDebug

\* A mutant of SingleInstanceAssertFails: the assertion is left out.
NoSingleInstanceAssert(T) == FALSE

\* assert(s_instance == nullptr) fails.
SingleInstanceAssertFails(T) == AssertOn(T) /\ s_instance[T] /= Null

CallSing(op, T, i) ==
    [op |-> op, type |-> T, inst |-> i, before |-> s_instance,
     liveBefore |-> liveInst[T]]

NoCallSing ==
    [op |-> "none", type |-> "none", inst |-> Null,
     before |-> [T \in Types |-> Null], liveBefore |-> {}]

\* s_instance = static_cast<T*>(this), and the new object is alive.
Registered(T) ==
    /\ s_instance' = [s_instance EXCEPT ![T] = nextId[T]]
    /\ liveInst' = [liveInst EXCEPT ![T] = @ \cup {nextId[T]}]
    /\ nextId' = [nextId EXCEPT ![T] = @ + 1]
    /\ overlapped' = [overlapped EXCEPT ![T] = @ \/ liveInst[T] /= {}]

\* Singleton<T>::Singleton()
SingletonConstruct(T) ==
    /\ failed = "none"
    /\ nextId[T] <= MaxInstances
    /\ lastSing' = CallSing("construct", T, nextId[T])
    /\ IF SingleInstanceAssertFails(T)
       THEN /\ failed' = "single_instance"
            /\ UNCHANGED <<s_instance, liveInst, nextId, overlapped>>
       ELSE /\ Registered(T)
            /\ UNCHANGED failed
    /\ UNCHANGED notSing

\* A mutant of SingletonDestroy: the destructor leaves s_instance set.
SingletonDestroyKeeps(T, i) ==
    /\ failed = "none"
    /\ i \in liveInst[T]
    /\ lastSing' = CallSing("destroy", T, i)
    /\ liveInst' = [liveInst EXCEPT ![T] = @ \ {i}]
    /\ UNCHANGED <<s_instance, nextId, overlapped, failed>>
    /\ UNCHANGED notSing

\* Singleton<T>::~Singleton()
SingletonDestroy(T, i) ==
    /\ failed = "none"
    /\ i \in liveInst[T]
    /\ lastSing' = CallSing("destroy", T, i)
    /\ s_instance' = [s_instance EXCEPT ![T] = Null]
    /\ liveInst' = [liveInst EXCEPT ![T] = @ \ {i}]
    /\ UNCHANGED <<nextId, overlapped, failed>>
    /\ UNCHANGED notSing

\* Translator::Translator(): the instance check, the registration, then
\* Q_ASSERT(qApp != nullptr) and qApp->installEventFilter(this), which
\* without the assertion is a call through a null pointer.
TranslatorConstruct ==
    /\ failed = "none"
    /\ nextId[TranslatorType] <= MaxInstances
    /\ lastSing' = CallSing("construct", TranslatorType, nextId[TranslatorType])
    /\ IF SingleInstanceAssertFails(TranslatorType)
       THEN /\ failed' = "single_instance"
            /\ UNCHANGED <<s_instance, liveInst, nextId, overlapped>>
       ELSE /\ Registered(TranslatorType)
            /\ failed' = IF qApp THEN "none"
                         ELSE IF qtDebug THEN "qApp" ELSE "crash"
    /\ UNCHANGED notSing

\* Translator::~Translator(); ~QObject then removes the event filter and
\* the connections of the object's signals.
TranslatorDestroy(i) ==
    /\ failed = "none"
    /\ i \in liveInst[TranslatorType]
    /\ lastSing' = CallSing("destroy", TranslatorType, i)
    /\ s_instance' = [s_instance EXCEPT ![TranslatorType] = Null]
    /\ liveInst' = [liveInst EXCEPT ![TranslatorType] = @ \ {i}]
    /\ trConns' = [c \in DOMAIN trConns |-> IF c[1] = i THEN 0 ELSE trConns[c]]
    /\ UNCHANGED <<nextId, overlapped, failed>>
    /\ UNCHANGED <<wAlive, trBound, lastT>>
    /\ UNCHANGED <<spVars, buildVars, connVars, layoutVars>>

\* static T *instance()
instance(T) == s_instance[T]

InitSing ==
    /\ s_instance = [T \in Types |-> Null]
    /\ liveInst = [T \in Types |-> {}]
    /\ nextId = [T \in Types |-> 1]
    /\ overlapped = [T \in Types |-> FALSE]
    /\ lastSing = NoCallSing

NextSing ==
    \/ \E T \in SingletonTypes : SingletonConstruct(T)
    \/ \E T \in SingletonTypes, i \in Instances : SingletonDestroy(T, i)
    \/ TranslatorConstruct
    \/ \E i \in Instances : TranslatorDestroy(i)

(***************************************************************************)
(* safeConnect / safeDisconnect                                            *)
(***************************************************************************)

QObjects == 1..NumQObjects
Signals == {"signalA"}
Slots == {"slotA"}
ConnTuples == QObjects \X Signals \X QObjects \X Slots

CallConn(op, s, sig, r, slot, success) ==
    [op |-> op, sender |-> s, signal |-> sig, receiver |-> r, slot |-> slot,
     success |-> success,
     had |-> IF s /= Null /\ r /= Null THEN conns[<<s, sig, r, slot>>] ELSE 0,
     before |-> conns]

NoCallConn ==
    [op |-> "none", sender |-> Null, signal |-> "none", receiver |-> Null,
     slot |-> "none", success |-> FALSE, had |-> 0,
     before |-> [t \in ConnTuples |-> 0]]

\* A mutant of ConnectSucceeds: connect without Qt::UniqueConnection.
ConnectSucceedsNotUnique(s, sig, r, slot) == s /= Null /\ r /= Null

\* The result of QObject::connect(sender, signal, receiver, slot,
\* Qt::UniqueConnection) for a member-function slot: false for a null
\* sender or receiver and when the connection already exists.
ConnectSucceeds(s, sig, r, slot) ==
    /\ s /= Null
    /\ r /= Null
    /\ conns[<<s, sig, r, slot>>] = 0

\* The result of QObject::disconnect(sender, signal, receiver, slot) for a
\* member-function slot: true when a connection was found and removed.
DisconnectSucceeds(s, sig, r, slot) ==
    /\ s /= Null
    /\ r /= Null
    /\ conns[<<s, sig, r, slot>>] > 0

\* Q_ASSERT(success)
ConnAssert(success, what) ==
    failed' = IF ~success /\ qtDebug THEN what ELSE failed

\* safeConnect(sender, signal, receiver, slot)
safeConnect(s, sig, r, slot) ==
    /\ failed = "none"
    /\ LET success == ConnectSucceeds(s, sig, r, slot) IN
       /\ conns' = IF success
                   THEN [conns EXCEPT ![<<s, sig, r, slot>>] = @ + 1]
                   ELSE conns
       /\ ConnAssert(success, "connect")
       /\ lastConn' = CallConn("connect", s, sig, r, slot, success)
    /\ UNCHANGED notConn

\* safeDisconnect(sender, signal, receiver, slot)
safeDisconnect(s, sig, r, slot) ==
    /\ failed = "none"
    /\ LET success == DisconnectSucceeds(s, sig, r, slot) IN
       /\ conns' = IF success
                   THEN [conns EXCEPT ![<<s, sig, r, slot>>] = 0]
                   ELSE conns
       /\ ConnAssert(success, "disconnect")
       /\ lastConn' = CallConn("disconnect", s, sig, r, slot, success)
    /\ UNCHANGED notConn

InitConn ==
    /\ conns = [t \in ConnTuples |-> 0]
    /\ lastConn = NoCallConn

NextConn ==
    \/ \E s \in QObjects \cup {Null}, sig \in Signals,
          r \in QObjects \cup {Null}, slot \in Slots : safeConnect(s, sig, r, slot)
    \/ \E s \in QObjects \cup {Null}, sig \in Signals,
          r \in QObjects \cup {Null}, slot \in Slots : safeDisconnect(s, sig, r, slot)

(***************************************************************************)
(* Layout wrappers: Box (VBox / HBox) and Form                             *)
(***************************************************************************)

\* The builders never compare children: one child widget and one child
\* layout stand for all of them.
Widgets == {1}
Layouts == {1}

\* The values the builders are exercised with.
MarginValues == {-1, 0}
SpacingValues == {-1, 0, 5}
StretchValues == {-1, 1}
AlignNone == "none"
Alignments == {"AlignCenter"}

\* QString: a default-constructed string is null; an empty one need not be.
NullString == [null |-> TRUE, chars |-> ""]
Str(c) == [null |-> FALSE, chars |-> c]
Texts == {NullString, Str(""), Str("Name")}

\* QString::isNull()
isNull(q) == q.null

\* Margins(int value): the same size on all four sides.
Margins(value) == <<value, value, value, value>>

\* What QLayout::spacing() reports: a negative spacing property means the
\* style's default spacing.
EffectiveSpacing ==
    IF spacingProp >= 0 THEN [default |-> FALSE, value |-> spacingProp]
    ELSE [default |-> TRUE, value |-> 0]

NoCallL ==
    [op |-> "none", ctor |-> "none", widget |-> Null, layout |-> Null,
     label |-> Null, text |-> NullString, stretch |-> 0, align |-> AlignNone,
     size |-> 0, calls |-> <<>>, before |-> <<>>]

\* LayoutWraper(Layout_T *layout, const Margins &margins, int spacing)
LayoutWraper(kind, margins, spacing) ==
    /\ layoutKind' = kind
    /\ items' = <<>>
    /\ rows' = <<>>
    /\ contentsMargins' = margins
    /\ spacingProp' = spacing
    /\ lastL' = [NoCallL EXCEPT !.op = "new", !.size = spacing]
    /\ appendedAs' = "none"
    /\ callOrder' = <<>>

\* VBox / HBox constructors; a new Box has m_reversed = false.
NewBox(margin, spacing) ==
    /\ LayoutWraper("box", Margins(margin), spacing)
    /\ m_reversed' = FALSE
    /\ UNCHANGED notLayout

\* Form constructors.
NewForm(margin, spacing) ==
    /\ LayoutWraper("form", Margins(margin), spacing)
    /\ m_reversed' = FALSE
    /\ UNCHANGED notLayout

IsBox == layoutKind = "box"

\* bool isReversed() const
isReversed == m_reversed

\* A mutant of placement: the sense of the reversed flag is inverted.
placementInverted == IF m_reversed THEN -1 ELSE 0

\* int placement() const
placement == IF m_reversed THEN 0 ELSE -1

\* The toolkit's box-layout insertion calls.
InsertWidgetCall(w, stretch, align) ==
    [fn |-> "insertWidget", index |-> placement, ref |-> w, stretch |-> stretch,
     align |-> align, size |-> 0]

InsertLayoutCall(l, stretch) ==
    [fn |-> "insertLayout", index |-> placement, ref |-> l, stretch |-> stretch,
     align |-> AlignNone, size |-> 0]

InsertStretchCall(stretch) ==
    [fn |-> "insertStretch", index |-> placement, ref |-> Null, stretch |-> stretch,
     align |-> AlignNone, size |-> 0]

InsertSpacingCall(size) ==
    [fn |-> "insertSpacing", index |-> placement, ref |-> Null, stretch |-> 0,
     align |-> AlignNone, size |-> size]

\* The item a box-layout insertion call creates.
ItemOf(call) ==
    [kind |-> call.fn, ref |-> call.ref, stretch |-> call.stretch,
     align |-> call.align, size |-> call.size]

\* QBoxLayout::insert*(index, ...): a negative index appends.
InsertAt(seq, index, item) ==
    IF index < 0 \/ index >= Len(seq) THEN Append(seq, item)
    ELSE SubSeq(seq, 1, index) \o <<item>> \o SubSeq(seq, index + 1, Len(seq))

\* How the accepted << calls were placed, this one included.
AppendedNow ==
    LET now == IF isReversed THEN "reversed" ELSE "forward" IN
    IF appendedAs \in {"none", now} THEN now ELSE "mixed"

\* A Box operator<< that makes the toolkit calls `calls` (none or one).
BoxInsert(rec, calls) ==
    /\ IsBox
    /\ calls = <<>> \/ Len(items) < MaxItems
    /\ items' = IF calls = <<>> THEN items
                ELSE InsertAt(items, calls[1].index, ItemOf(calls[1]))
    /\ lastL' = [rec EXCEPT !.calls = calls, !.before = items]
    /\ appendedAs' = IF calls = <<>> THEN appendedAs ELSE AppendedNow
    /\ callOrder' = IF calls = <<>> THEN callOrder
                    ELSE IF AppendedNow = "mixed" THEN <<>>
                    ELSE Append(callOrder, ItemOf(calls[1]))
    /\ UNCHANGED <<layoutKind, rows, m_reversed, contentsMargins, spacingProp>>
    /\ UNCHANGED notLayout

\* A mutant of BoxAddWidget: the null check is left out.
BoxAddWidgetUnchecked(widget) ==
    /\ IsBox
    /\ BoxInsert([NoCallL EXCEPT !.op = "widget", !.widget = widget],
              <<InsertWidgetCall(widget, 0, AlignNone)>>)

\* Box &operator<<(QWidget *widget)
BoxAddWidget(widget) ==
    /\ IsBox
    /\ BoxInsert([NoCallL EXCEPT !.op = "widget", !.widget = widget],
              IF widget /= Null THEN <<InsertWidgetCall(widget, 0, AlignNone)>>
              ELSE <<>>)

\* Box &operator<<(QLayout *layout)
BoxAddLayout(layout) ==
    /\ IsBox
    /\ BoxInsert([NoCallL EXCEPT !.op = "layout", !.layout = layout],
              IF layout /= Null THEN <<InsertLayoutCall(layout, 0)>> ELSE <<>>)

\* Box &operator<<(const Stretch &stretch)
BoxAddStretch(stretch) ==
    /\ IsBox
    /\ BoxInsert([NoCallL EXCEPT !.op = "stretch", !.stretch = stretch],
              <<InsertStretchCall(stretch)>>)

\* Box &operator<<(const Stretched &stretched); a Stretched wraps a widget
\* or a layout, the other member stays null.
BoxAddStretched(widget, layout, stretch) ==
    /\ widget = Null \/ layout = Null
    /\ BoxInsert([NoCallL EXCEPT !.op = "stretched", !.widget = widget,
                                 !.layout = layout, !.stretch = stretch],
                 IF widget /= Null THEN <<InsertWidgetCall(widget, stretch, AlignNone)>>
                 ELSE IF layout /= Null THEN <<InsertLayoutCall(layout, stretch)>>
                 ELSE <<>>)

\* Box &operator<<(const Aligned &aligned)
BoxAddAligned(widget, align, stretch) ==
    /\ IsBox
    /\ BoxInsert([NoCallL EXCEPT !.op = "aligned", !.widget = widget,
                              !.align = align, !.stretch = stretch],
              IF widget /= Null THEN <<InsertWidgetCall(widget, stretch, align)>>
              ELSE <<>>)

\* A mutant of BoxAddSpacing: the test is spacing >= 0.
BoxAddSpacingFromZero(spacing) ==
    /\ IsBox
    /\ BoxInsert([NoCallL EXCEPT !.op = "spacing", !.size = spacing],
              IF spacing >= 0 THEN <<InsertSpacingCall(spacing)>> ELSE <<>>)

\* Box &operator<<(int spacing)
BoxAddSpacing(spacing) ==
    /\ IsBox
    /\ BoxInsert([NoCallL EXCEPT !.op = "spacing", !.size = spacing],
              IF spacing > 0 THEN <<InsertSpacingCall(spacing)>> ELSE <<>>)

\* Box &setReversed(bool value)
BoxSetReversed(value) ==
    /\ IsBox
    /\ m_reversed' = value
    /\ lastL' = [NoCallL EXCEPT !.op = "setReversed", !.before = items]
    /\ UNCHANGED <<layoutKind, items, rows, contentsMargins, spacingProp,
                   appendedAs, callOrder>>
    /\ UNCHANGED notLayout

\* The Row constructors.
RowCtors ==
    {"label_widget", "text_widget", "label_layout", "text_layout", "widget", "layout"}

RowHasLabel(ctor) == ctor \in {"label_widget", "label_layout"}
RowHasText(ctor) == ctor \in {"text_widget", "text_layout"}
RowHasWidget(ctor) == ctor \in {"label_widget", "text_widget", "widget"}

\* Row(...): the members a constructor does not name keep their defaults
\* (null pointers, a null string); Row(const QString &, QLayout *) turns a
\* null label text into an empty one.
Row(ctor, label, text, field) ==
    [label |-> IF RowHasLabel(ctor) THEN label ELSE Null,
     labelText |-> IF ctor = "text_widget" THEN text
                   ELSE IF ctor = "text_layout"
                        THEN (IF isNull(text) THEN Str("") ELSE text)
                   ELSE NullString,
     widget |-> IF RowHasWidget(ctor) THEN field ELSE Null,
     layout |-> IF RowHasWidget(ctor) THEN Null ELSE field]

\* The toolkit's form-row insertion calls.
AddRowCall(fn, label, text, field) ==
    [fn |-> fn, label |-> label, text |-> text, field |-> field]

\* The QFormLayout::addRow call Form::operator<< makes for a row.
FormCalls(row) ==
    IF row.widget /= Null
    THEN IF row.label /= Null
         THEN <<AddRowCall("addRow(QWidget*,QWidget*)", row.label, NullString, row.widget)>>
         ELSE IF ~isNull(row.labelText)
         THEN <<AddRowCall("addRow(QString,QWidget*)", Null, row.labelText, row.widget)>>
         ELSE <<AddRowCall("addRow(QWidget*)", Null, NullString, row.widget)>>
    ELSE IF row.layout /= Null
    THEN IF row.label /= Null
         THEN <<AddRowCall("addRow(QWidget*,QLayout*)", row.label, NullString, row.layout)>>
         ELSE IF ~isNull(row.labelText)
         THEN <<AddRowCall("addRow(QString,QLayout*)", Null, row.labelText, row.layout)>>
         ELSE <<AddRowCall("addRow(QLayout*)", Null, NullString, row.layout)>>
    ELSE <<>>

\* Form &operator<<(const Row &row), for a Row built by constructor `ctor`.
FormAddRow(ctor, label, text, field) ==
    /\ layoutKind = "form"
    /\ RowHasLabel(ctor) \/ label = Null
    /\ RowHasText(ctor) \/ text = NullString
    /\ LET calls == FormCalls(Row(ctor, label, text, field)) IN
       /\ calls = <<>> \/ Len(rows) < MaxItems
       /\ rows' = IF calls = <<>> THEN rows ELSE Append(rows, calls[1])
       /\ lastL' = [NoCallL EXCEPT !.op = "row", !.ctor = ctor,
                                   !.label = label, !.text = text,
                                   !.widget = IF RowHasWidget(ctor) THEN field ELSE Null,
                                   !.layout = IF RowHasWidget(ctor) THEN Null ELSE field,
                                   !.calls = calls, !.before = rows]
    /\ UNCHANGED <<layoutKind, items, m_reversed, contentsMargins, spacingProp,
                   appendedAs, callOrder>>
    /\ UNCHANGED notLayout

InitLayout ==
    /\ layoutKind = "none"
    /\ items = <<>>
    /\ rows = <<>>
    /\ m_reversed = FALSE
    /\ contentsMargins = Margins(0)
    /\ spacingProp = -1
    /\ lastL = NoCallL
    /\ appendedAs = "none"
    /\ callOrder = <<>>

NextLayout ==
    \/ \E m \in MarginValues, sp \in SpacingValues : NewBox(m, sp)
    \/ \E m \in MarginValues, sp \in SpacingValues : NewForm(m, sp)
    \/ \E w \in Widgets \cup {Null} : BoxAddWidget(w)
    \/ \E l \in Layouts \cup {Null} : BoxAddLayout(l)
    \/ \E st \in StretchValues : BoxAddStretch(st)
    \/ \E w \in Widgets \cup {Null}, l \in Layouts \cup {Null}, st \in StretchValues :
          BoxAddStretched(w, l, st)
    \/ \E w \in Widgets \cup {Null}, a \in Alignments, st \in StretchValues :
          BoxAddAligned(w, a, st)
    \/ \E sp \in SpacingValues : BoxAddSpacing(sp)
    \/ \E b \in BOOLEAN : BoxSetReversed(b)
    \/ \E ctor \in RowCtors, label \in Widgets \cup {Null}, text \in Texts,
          field \in Widgets \cup {Null} : FormAddRow(ctor, label, text, field)

(***************************************************************************)
(* Translator: the event filter and the TR / TR_TEXT / TR_TOOLTIP bindings *)
(***************************************************************************)

\* The objects an application-wide event filter is called for, and the
\* event types: LanguageChange and any other one.
Watched == {"qApp", "widget"}
EventTypes == {"LanguageChange", "Other"}

\* The setters TR is used with: TR_TEXT and TR_TOOLTIP.
Functions == {"setText", "setToolTip"}

\* A widget's property, named by its setter.
Bindable == Widgets \X Functions

NoCallT ==
    [op |-> "none", watched |-> "none", type |-> "none", widget |-> Null,
     function |-> "none", inst |-> Null, live |-> {}, success |-> FALSE,
     consumed |-> FALSE, emitted |-> [t \in Instances |-> 0],
     sets |-> [b \in Bindable |-> 0]]

\* A mutant of eventFilter: the watched object is not tested.
eventFilterAnyObject(watched, type) ==
    [emitted |-> IF type = "LanguageChange" THEN 1 ELSE 0, consumed |-> FALSE]

\* bool Translator::eventFilter(QObject *watched, QEvent *event): how often
\* languageChanged is emitted, and the return value.
eventFilter(watched, type) ==
    [emitted |-> IF watched = "qApp" /\ type = "LanguageChange" THEN 1 ELSE 0,
     consumed |-> FALSE]

\* The Translators whose event filter is installed on qApp: the constructor
\* installs it, ~QObject removes it.
InstalledFilters == liveInst[TranslatorType]

\* The TR lambdas for property b that run in the delivery: those connected
\* to a languageChanged that was emitted.
RECURSIVE LambdaCalls(_, _, _)
LambdaCalls(ts, b, emitted) ==
    IF ts = {} THEN 0
    ELSE LET t == CHOOSE x \in ts : TRUE IN
         emitted[t] * trConns[<<t, b>>] + LambdaCalls(ts \ {t}, b, emitted)

\* The application delivers an event to an object: every installed filter
\* is called with it (none of them stops it), and each emission of
\* languageChanged runs the connected lambdas, p->function(text).
DeliverEvent(watched, type) ==
    /\ failed = "none"
    /\ qApp
    /\ LET emitted == [t \in Instances |->
                          IF t \in InstalledFilters
                          THEN eventFilter(watched, type).emitted ELSE 0]
       IN lastT' = [NoCallT EXCEPT
                       !.op = "event", !.watched = watched, !.type = type,
                       !.live = liveInst[TranslatorType],
                       !.emitted = emitted,
                       !.consumed = \E t \in InstalledFilters :
                                       eventFilter(watched, type).consumed,
                       !.sets = [b \in Bindable |-> LambdaCalls(Instances, b, emitted)]]
    /\ UNCHANGED <<wAlive, trConns, trBound, failed>>
    /\ UNCHANGED notTr

\* The result of QObject::connect(sender, signal, context, functor,
\* Qt::UniqueConnection): false for a null sender or context; a functor
\* has no identity to compare, so an existing connection does not make it
\* fail.
ConnectFunctorSucceeds(sender, context) == sender /= Null /\ context /= Null

\* TR(widget, function, text): safeConnect(Translator::instance(),
\* &Translator::languageChanged, p, [p]{ p->function(text); }), then
\* widget->function(text), which a failed Q_ASSERT does not reach.  TR_TEXT
\* and TR_TOOLTIP are TR with setText and setToolTip.
TR(w, function) ==
    /\ failed = "none"
    /\ wAlive[w]
    /\ LET sender == instance(TranslatorType)
           success == ConnectFunctorSucceeds(sender, w)
           b == <<w, function>>
       IN /\ success => trConns[<<sender, b>>] < MaxBindings
          /\ trConns' = IF success THEN [trConns EXCEPT ![<<sender, b>>] = @ + 1]
                        ELSE trConns
          /\ trBound' = IF success THEN [trBound EXCEPT ![b] = @ \cup {sender}]
                        ELSE trBound
          /\ ConnAssert(success, "connect")
          /\ lastT' = [NoCallT EXCEPT
                          !.op = "bind", !.widget = w, !.function = function,
                          !.inst = sender,
                          !.live = liveInst[TranslatorType], !.success = success,
                          !.sets = [x \in Bindable |->
                                       IF x = b /\ (success \/ ~qtDebug) THEN 1 ELSE 0]]
    /\ UNCHANGED wAlive
    /\ UNCHANGED notTr

\* A widget is constructed.
WidgetCreate(w) ==
    /\ failed = "none"
    /\ ~wAlive[w]
    /\ wAlive' = [wAlive EXCEPT ![w] = TRUE]
    /\ lastT' = [NoCallT EXCEPT !.op = "widgetCreate", !.widget = w]
    /\ UNCHANGED <<trConns, trBound, failed>>
    /\ UNCHANGED notTr

\* A widget is destroyed: ~QObject removes the connections it is the
\* context of.
WidgetDestroy(w) ==
    /\ failed = "none"
    /\ wAlive[w]
    /\ wAlive' = [wAlive EXCEPT ![w] = FALSE]
    /\ trConns' = [c \in DOMAIN trConns |-> IF c[2][1] = w THEN 0 ELSE trConns[c]]
    /\ trBound' = [b \in Bindable |-> IF b[1] = w THEN {} ELSE trBound[b]]
    /\ lastT' = [NoCallT EXCEPT !.op = "widgetDestroy", !.widget = w]
    /\ UNCHANGED failed
    /\ UNCHANGED notTr

InitTr ==
    /\ wAlive = [w \in Widgets |-> FALSE]
    /\ trConns = [c \in Instances \X Bindable |-> 0]
    /\ trBound = [b \in Bindable |-> {}]
    /\ lastT = NoCallT

NextTr ==
    \/ \E watched \in Watched, type \in EventTypes : DeliverEvent(watched, type)
    \/ \E w \in Widgets, function \in Functions : TR(w, function)
    \/ \E w \in Widgets : WidgetCreate(w)
    \/ \E w \in Widgets : WidgetDestroy(w)

\* The Translator with its bindings: its construction and destruction, and
\* the events, bindings and widgets.
NextTranslator ==
    \/ TranslatorConstruct
    \/ \E i \in Instances : TranslatorDestroy(i)
    \/ NextTr

(***************************************************************************)
(* Specifications                                                          *)
(*                                                                         *)
(* Spec composes all headers.  The headers share no state but the build    *)
(* flags and the process's fate, so each one is also run alone             *)
(* (SpecSafePointer, SpecSingleton, SpecConnect, SpecLayout,               *)
(* SpecTranslator; SpecSafePointerLoop adds the running event loop); the   *)
(* properties of a header are stated on its last-call record and hold in   *)
(* the runs of that header.                                                *)
(***************************************************************************)

\* The build (which assertions are compiled in) and whether a QApplication
\* exists are fixed for a run.
InitBuild ==
    /\ cDebug \in BOOLEAN
    /\ qtDebug \in BOOLEAN
    /\ qApp \in BOOLEAN
    /\ failed = "none"

\* A run that exercises one header needs no choice of what it never reads:
\* SafePointer and the layout wrappers have no assertions, safeConnect has
\* Q_ASSERT only.
NoBuild ==
    /\ cDebug = FALSE
    /\ qtDebug = FALSE
    /\ qApp = FALSE
    /\ failed = "none"

QtBuild ==
    /\ cDebug = FALSE
    /\ qtDebug \in BOOLEAN
    /\ qApp = FALSE
    /\ failed = "none"

\* The Translator reads Q_ASSERT and qApp.
QtAppBuild ==
    /\ cDebug = FALSE
    /\ qtDebug \in BOOLEAN
    /\ qApp \in BOOLEAN
    /\ failed = "none"

Init == InitSP /\ InitBuild /\ InitSing /\ InitConn /\ InitLayout /\ InitTr

InitPlain == InitSP /\ NoBuild /\ InitSing /\ InitConn /\ InitLayout /\ InitTr

InitConnect == InitSP /\ QtBuild /\ InitSing /\ InitConn /\ InitLayout /\ InitTr

InitTranslator == InitSP /\ QtAppBuild /\ InitSing /\ InitConn /\ InitLayout /\ InitTr

Next == NextSP \/ NextSing \/ NextConn \/ NextLayout \/ NextTr

Spec == Init /\ [][Next]_vars

SpecSafePointer == InitPlain /\ [][NextSP]_vars

SpecSingleton == Init /\ [][NextSing]_vars

SpecConnect == InitConnect /\ [][NextConn]_vars

SpecLayout == InitPlain /\ [][NextLayout]_vars

SpecTranslator == InitTranslator /\ [][NextTranslator]_vars

\* The event loop keeps running: a posted deferred delete is delivered.
EventLoopRuns == \A o \in Objects : WF_vars(ProcessDeferredDelete(o))

SpecSafePointerLoop == SpecSafePointer /\ EventLoopRuns

(***************************************************************************)
(* Claims: SafePointer                                                     *)
(***************************************************************************)

\* C1: whatever sequence of SafePointer destruction, reset(), resetLater(),
\* release(), raw-pointer assignment and external deletion has run, no
\* object was deleted more than once, and every constructed SafePointer
\* that reads non-null reads a live object (a deleted object's SafePointers
\* read null).
C1_NoDoubleDelete ==
    /\ \A o \in Objects : deleteCount[o] <= 1
    /\ \A p \in Pointers : spAlive[p] /\ ptr[p] /= Null => IsLive(ptr[p])

\* C2: right after ~SafePointer or reset() on a pointer that held a live
\* object, exactly that object has been deleted (once), however many other
\* SafePointers held it too, and no SafePointer reads it any more; on a
\* pointer that read null, nothing has been deleted.
C2_ResetDestroyDeletes ==
    lastSP.op \in {"reset", "destroy"} =>
        /\ lastSP.live =>
              /\ lastSP.deleted = {lastSP.held}
              /\ deleteCount[lastSP.held] = 1
              /\ \A q \in Pointers : ptr[q] /= lastSP.held
        /\ lastSP.held = Null => lastSP.deleted = {}
        /\ lastSP.live => ptr[lastSP.p] = Null

C2_Witness ==
    /\ lastSP.op = "destroy"
    /\ lastSP.live
    /\ lastSP.owners >= 2
    /\ lastSP.deleted = {lastSP.held}
    /\ \E q \in Pointers : spAlive[q] /\ ptr[q] = Null

\* C3: right after sp = obj, the object sp held before (if any) has been
\* deleted, sp reads obj, and obj is live when it is non-null.
C3_AssignOwnsNew ==
    lastSP.op = "assign" =>
        /\ lastSP.live => lastSP.held \in lastSP.deleted
        /\ ptr[lastSP.p] = lastSP.obj
        /\ lastSP.obj /= Null => IsLive(lastSP.obj)

\* C4: right after release() the call has returned what the pointer held,
\* the pointer reads null and nothing was deleted; and a destruction,
\* reset() or assignment of a pointer whose object was released has not
\* deleted the released object.
C4_ReleaseKeepsObject ==
    /\ lastSP.op = "release" =>
          /\ lastSP.ret = lastSP.held
          /\ ptr[lastSP.p] = Null
          /\ lastSP.deleted = {}
          /\ lastSP.live => deleteCount[lastSP.held] = 0
    /\ lastSP.op \in {"destroy", "reset", "assign"} /\ lastSP.rel /= Null =>
          lastSP.rel \notin lastSP.deleted

C4_Witness ==
    /\ lastSP.op \in {"destroy", "reset", "assign"}
    /\ lastSP.rel /= Null
    /\ IsLive(lastSP.rel)

(***************************************************************************)
(* Claims: Singleton                                                       *)
(***************************************************************************)

\* C5: for every type whose instances never overlapped, in a run that has
\* not failed, instance() is null while no instance is alive and is the live
\* instance while one is (also for a second instance built after the first
\* was destroyed); and a construction or destruction of one type has left
\* the instance() of every other type as it was.
C5_InstanceTracksLifetime ==
    /\ \A T \in Types :
          ~overlapped[T] /\ failed = "none" =>
              /\ liveInst[T] = {} => instance(T) = Null
              /\ \A i \in liveInst[T] : instance(T) = i
    /\ lastSing.op \in {"construct", "destroy"} =>
          \A U \in Types \ {lastSing.type} : instance(U) = lastSing.before[U]

C5_Witness ==
    \E T \in SingletonTypes : \E U \in Types \ {T} :
        /\ lastSing.op = "destroy"
        /\ lastSing.type = U
        /\ lastSing.before[T] = 2
        /\ lastSing.before[U] /= Null
        /\ instance(U) = Null
        /\ liveInst[T] = {2}
        /\ instance(T) = 2
        /\ ~overlapped[T]
        /\ failed = "none"

\* C6: where the assertion is compiled in, a construction while an instance
\* of the type is alive has failed the single-instance assertion; a
\* construction while none is alive has not failed it, in any build; and
\* with the assertion compiled in, every state that has not failed has at
\* most one live instance per type, instance() being non-null exactly when
\* there is one.
C6_SingleInstance ==
    /\ lastSing.op = "construct" =>
          /\ AssertOn(lastSing.type) /\ lastSing.liveBefore /= {} =>
                failed = "single_instance"
          /\ lastSing.liveBefore = {} => failed /= "single_instance"
    /\ \A T \in Types :
          AssertOn(T) /\ failed = "none" =>
              /\ Cardinality(liveInst[T]) <= 1
              /\ instance(T) /= Null <=> Cardinality(liveInst[T]) = 1

C6_Witness ==
    /\ lastSing.op = "construct"
    /\ lastSing.liveBefore /= {}
    /\ failed = "single_instance"
    /\ \E T \in Types \ {lastSing.type} : liveInst[T] /= {}

(***************************************************************************)
(* Claims: safeConnect                                                     *)
(***************************************************************************)

ConnArgsValid == lastConn.sender /= Null /\ lastConn.receiver /= Null

ConnTuple == <<lastConn.sender, lastConn.signal, lastConn.receiver, lastConn.slot>>

\* C9: a safeConnect call ran on without a failed assertion, in a build with
\* Q_ASSERT, exactly when sender and receiver were non-null and the
\* connection did not exist, and it then exists once; a safeDisconnect call
\* exactly when the connection existed, and it is then gone.  A failing call
\* has changed no connection, and without Q_ASSERT it fails nothing.  No
\* tuple ever has more than one connection.
C9_SafeConnectChecked ==
    /\ lastConn.op = "connect" =>
          /\ lastConn.success <=> ConnArgsValid /\ lastConn.had = 0
          /\ lastConn.success =>
                conns = [lastConn.before EXCEPT ![ConnTuple] = 1]
    /\ lastConn.op = "disconnect" =>
          /\ lastConn.success <=> ConnArgsValid /\ lastConn.had > 0
          /\ lastConn.success =>
                conns = [lastConn.before EXCEPT ![ConnTuple] = 0]
    /\ lastConn.op /= "none" =>
          /\ ~lastConn.success => conns = lastConn.before
          /\ qtDebug =>
                (failed = "none" <=> lastConn.success)
          /\ qtDebug /\ ~lastConn.success => failed = lastConn.op
          /\ ~qtDebug => failed = "none"
    /\ \A t \in ConnTuples : conns[t] <= 1

C9_Witness ==
    /\ lastConn.op = "connect"
    /\ ConnArgsValid
    /\ lastConn.had = 1
    /\ failed = "connect"
    /\ \E t \in ConnTuples : t /= ConnTuple /\ conns[t] = 1

(***************************************************************************)
(* Claims: layout builders                                                 *)
(***************************************************************************)

\* seq without its i-th element.
RemoveAt(seq, i) == SubSeq(seq, 1, i - 1) \o SubSeq(seq, i + 1, Len(seq))

\* The last builder call was an operator<< whose child was null.
NullChildCall ==
    \/ lastL.op = "widget" /\ lastL.widget = Null
    \/ lastL.op = "layout" /\ lastL.layout = Null
    \/ lastL.op = "stretched" /\ lastL.widget = Null /\ lastL.layout = Null
    \/ lastL.op = "aligned" /\ lastL.widget = Null
    \/ lastL.op = "row" /\ lastL.widget = Null /\ lastL.layout = Null

\* The layout the last call worked on.
Built == IF lastL.op = "row" THEN rows ELSE items

\* C7: an operator<< with a null child (a null QWidget* or QLayout*, a
\* Stretched with neither widget nor layout, an Aligned with a null widget,
\* a Row with neither field widget nor field layout) has made no toolkit
\* call and left the items and rows as they were; and no toolkit insertion
\* call ever carries a null child, nor does any item or row of the layout.
C7_NullChildrenIgnored ==
    /\ NullChildCall => lastL.calls = <<>> /\ Built = lastL.before
    /\ \A i \in 1..Len(lastL.calls) :
          /\ lastL.op = "row" => lastL.calls[i].field /= Null
          /\ lastL.op \in {"widget", "layout", "stretched", "aligned"} =>
                lastL.calls[i].ref /= Null
    /\ \A i \in 1..Len(items) :
          items[i].kind \in {"insertWidget", "insertLayout"} => items[i].ref /= Null
    /\ \A i \in 1..Len(rows) : rows[i].field /= Null

C7_Witness ==
    /\ NullChildCall
    /\ lastL.op = "stretched"
    /\ Len(items) = MaxItems
    /\ items = lastL.before

\* The addRow overload C8 expects for the last Row.
ExpectedAddRow ==
    IF RowHasLabel(lastL.ctor)
    THEN (IF RowHasWidget(lastL.ctor) THEN "addRow(QWidget*,QWidget*)"
          ELSE "addRow(QWidget*,QLayout*)")
    ELSE IF RowHasText(lastL.ctor)
    THEN (IF RowHasWidget(lastL.ctor) THEN "addRow(QString,QWidget*)"
          ELSE "addRow(QString,QLayout*)")
    ELSE (IF RowHasWidget(lastL.ctor) THEN "addRow(QWidget*)" ELSE "addRow(QLayout*)")

\* C8: a Row with a non-null field, built with a non-null label widget,
\* with a label text (any text, also an empty or a null string) or with the
\* field alone, has added exactly one row, through the addRow overload for
\* that kind of label: (label widget, field), (label text, field), or the
\* spanning field-only one.
C8_RowOverloadByLabel ==
    /\ lastL.op = "row"
    /\ lastL.widget /= Null \/ lastL.layout /= Null
    /\ RowHasLabel(lastL.ctor) => lastL.label /= Null
    => /\ Len(lastL.calls) = 1
       /\ rows = Append(lastL.before, lastL.calls[1])
       /\ lastL.calls[1].fn = ExpectedAddRow

\* The last call appended a spacing amount / a stretch to a Box.
StretchCall == lastL.op \in {"stretch", "stretched", "aligned"}

\* The spacing part of C10: a positive amount has inserted exactly one
\* spacing item of that size, a zero or negative amount nothing; and a
\* wrapper constructed with spacing -1 reports the toolkit's default
\* spacing, one constructed with a non-negative spacing reports that.
SpacingSentinel ==
    /\ lastL.op = "spacing" /\ lastL.size > 0 =>
          /\ lastL.calls = <<InsertSpacingCall(lastL.size)>>
          /\ \E i \in 1..Len(items) :
                /\ items[i].kind = "insertSpacing"
                /\ items[i].size = lastL.size
                /\ RemoveAt(items, i) = lastL.before
    /\ lastL.op = "spacing" /\ lastL.size <= 0 =>
          lastL.calls = <<>> /\ items = lastL.before
    /\ lastL.op = "new" =>
          /\ contentsMargins \in {Margins(m) : m \in MarginValues}
          /\ EffectiveSpacing.default <=> lastL.size < 0
          /\ ~EffectiveSpacing.default => EffectiveSpacing.value = lastL.size

\* C10 as stated: the spacing part, and a negative stretch given to
\* Stretch / Stretched / Aligned is not passed to the toolkit as the
\* stretch factor.
C10_SentinelForStretchToo ==
    /\ SpacingSentinel
    /\ StretchCall /\ lastL.stretch < 0 =>
          \A i \in 1..Len(lastL.calls) : lastL.calls[i].stretch /= lastL.stretch

\* C10 amended: the spacing part, and the stretch given to Stretch /
\* Stretched / Aligned is passed to the toolkit insertion call unchanged,
\* whatever its value (for Stretched and Aligned when the child is
\* non-null): there is no sentinel for stretch.
C10_SpacingSentinelStretchVerbatim ==
    /\ SpacingSentinel
    /\ StretchCall /\ ~NullChildCall =>
          /\ Len(lastL.calls) = 1
          /\ lastL.calls[1].stretch = lastL.stretch
          /\ \E i \in 1..Len(items) :
                items[i].stretch = lastL.stretch /\ RemoveAt(items, i) = lastL.before

C10_Witness ==
    /\ lastL.op = "stretch"
    /\ lastL.stretch < 0
    /\ Len(lastL.calls) = 1
    /\ lastL.calls[1].stretch < 0
    /\ spacingProp = -1
    /\ \E i \in 1..Len(items) : items[i].kind = "insertSpacing" /\ items[i].size > 0

\* The last call was a Box operator<< that was not ignored.
AcceptedAppend ==
    /\ lastL.op \in {"widget", "layout", "stretch", "stretched", "aligned", "spacing"}
    /\ lastL.calls /= <<>>

\* seq back to front.
Reverse(seq) == [i \in 1..Len(seq) |-> seq[Len(seq) + 1 - i]]

\* C11: every accepted (non-ignored) << on a Box has inserted exactly one
\* item, behind the items already there when isReversed() is false and in
\* front of them when it is true.  Hence a Box that was not reversed at any
\* append holds its items in the order of the << calls, and a Box that was
\* reversed at every append (reversed before the first one) holds them in
\* the reverse order.  setReversed() leaves the items as they were, and a
\* new Box is not reversed.
C11_OrderFollowsReversedFlag ==
    /\ AcceptedAppend =>
          /\ Len(lastL.calls) = 1
          /\ Len(items) = Len(lastL.before) + 1
          /\ ~isReversed => items = Append(lastL.before, ItemOf(lastL.calls[1]))
          /\ isReversed => items = <<ItemOf(lastL.calls[1])>> \o lastL.before
    /\ IsBox /\ appendedAs \in {"none", "forward"} => items = callOrder
    /\ IsBox /\ appendedAs \in {"none", "reversed"} => items = Reverse(callOrder)
    /\ lastL.op = "setReversed" => items = lastL.before
    /\ IsBox /\ lastL.op = "new" => ~isReversed /\ items = <<>>

C11_Witness ==
    /\ AcceptedAppend
    /\ isReversed
    /\ Len(items) = MaxItems
    /\ appendedAs = "reversed"
    /\ items[1] /= items[Len(items)]
    /\ items = Reverse(callOrder)
    /\ items /= callOrder

(***************************************************************************)
(* Claims: SafePointer::resetLater                                         *)
(***************************************************************************)

\* What a step that ends in the call recorded in lastSP' has done, for
\* resetLater(), for the delivery of a deferred delete, and for a destroy,
\* reset or reassignment that finds the deferred delete still posted.
ResetLaterSteps ==
    /\ lastSP'.op = "resetLater" /\ lastSP'.held = Null =>
          UNCHANGED <<deleteCount, ptr, spAlive, pendingDelete, raw>>
    /\ lastSP'.op = "resetLater" /\ lastSP'.live =>
          /\ UNCHANGED <<deleteCount, ptr, spAlive, raw>>
          /\ deleteCount'[lastSP'.held] = 0
          /\ ptr'[lastSP'.p] = lastSP'.held
          /\ pendingDelete' = pendingDelete \cup {lastSP'.held}
    /\ lastSP'.op = "deferred" /\ IsLive(lastSP'.obj) =>
          /\ deleteCount'[lastSP'.obj] = 1
          /\ lastSP'.obj \notin pendingDelete'
          /\ \A q \in Pointers : ptr[q] = lastSP'.obj => ptr'[q] = Null
    /\ /\ lastSP'.op \in {"destroy", "reset", "assign"}
       /\ lastSP'.live
       /\ lastSP'.held \in pendingDelete
       => /\ deleteCount'[lastSP'.held] = 1
          /\ lastSP'.held \notin pendingDelete'

\* C12: resetLater() on a null SafePointer changes nothing; on a
\* SafePointer that refers to a live object it posts the deferred delete
\* and nothing else, so right after the call the object is alive and the
\* SafePointer still refers to it.  When the event loop delivers the
\* deferred delete the object is deleted and every SafePointer that
\* referred to it reads null.  A destroy, reset or reassignment of the
\* SafePointer that comes first deletes the object there and then and takes
\* the posted deferred delete with it, so none is left to delete the object
\* again.  With the event loop running, an object with a posted deferred
\* delete is eventually deleted (as long as the heap is intact).
C12_ResetLaterDefersDeletion ==
    /\ [][ResetLaterSteps]_vars
    /\ \A o \in Objects :
          (o \in pendingDelete /\ IsLive(o)) ~> (~IsLive(o) \/ ~HeapIntact)

C12_Witness ==
    /\ lastSP.op = "resetLater"
    /\ lastSP.live
    /\ IsLive(lastSP.held)
    /\ ptr[lastSP.p] = lastSP.held
    /\ lastSP.held \in pendingDelete
    /\ lastSP.owners = 1

(***************************************************************************)
(* Claims: Translator                                                      *)
(***************************************************************************)

\* The last call was the delivery of a LanguageChange event to qApp.
LanguageChangeToApp ==
    lastT.op = "event" /\ lastT.watched = "qApp" /\ lastT.type = "LanguageChange"

\* The property the last TR call was for.
LastBound == <<lastT.widget, lastT.function>>

\* C13: in the delivery of an event, each Translator that exists has
\* emitted languageChanged exactly once when the event is a LanguageChange
\* for the application object, and not at all for any other event type or
\* watched object; no filter has consumed the event.  In the delivery, a
\* property of a live widget has been set (at least once) when a
\* Translator it was bound to with TR emitted, and no property has been set
\* when none emitted, nor one that was not bound.  A TR binding has set
\* its property exactly once there and then, and no other (unless the
\* assertion ended the process).  A TR binding made when no Translator
\* exists fails safeConnect's condition: the connection is not made, and
\* with Q_ASSERT compiled in the process ends on the assertion before the
\* property is set.
C13_TranslatorEmitsAndRebinds ==
    /\ lastT.op = "event" =>
          /\ \A t \in Instances :
                lastT.emitted[t] =
                   IF t \in lastT.live /\ LanguageChangeToApp THEN 1 ELSE 0
          /\ ~lastT.consumed
          /\ \A b \in Bindable :
                /\ (\E t \in trBound[b] : lastT.emitted[t] > 0) => lastT.sets[b] >= 1
                /\ (\A t \in Instances : lastT.emitted[t] = 0) => lastT.sets[b] = 0
                /\ trBound[b] = {} \/ ~wAlive[b[1]] => lastT.sets[b] = 0
    /\ lastT.op = "bind" =>
          /\ failed = "none" =>
                \A b \in Bindable : lastT.sets[b] = IF b = LastBound THEN 1 ELSE 0
          /\ lastT.live /= {} /\ lastT.inst /= Null =>
                /\ lastT.success
                /\ lastT.inst \in trBound[LastBound]
          /\ lastT.live = {} =>
                /\ ~lastT.success
                /\ \A t \in Instances : trConns[<<t, LastBound>>] = 0
                /\ qtDebug => failed = "connect" /\ lastT.sets[LastBound] = 0

C13_Witness ==
    /\ LanguageChangeToApp
    /\ \E t \in lastT.live, b \in Bindable :
          /\ wAlive[b[1]]
          /\ t \in trBound[b]
          /\ lastT.emitted[t] = 1
          /\ lastT.sets[b] = MaxBindings
    /\ ~lastT.consumed

====
